---- MODULE Spec2Model ----
(***************************************************************************)
(* UE-Event-Manager: a DataTable-driven registry (UGameEventManager) of    *)
(* named multicast events (UGameEvent / UGameEventDynamic) whose Broadcast *)
(* fills a fixed list of typed argument slots, one argument at a time, and *)
(* fires the event's delegate when the last slot is filled.                *)
(*                                                                         *)
(* Sources: src/GameEventManager.h, src/GameEventManager.cpp.              *)
(***************************************************************************)
EXTENDS Integers, Sequences, FiniteSets, TLC

VARIABLES
    m_eventDefinitions, \* UGameEventManager::m_eventDefinitions, the DataTable
    m_events,           \* UGameEventManager::m_events, name -> UGameEvent
    crashed,            \* a check() failed: the process is gone
    corrupt,            \* memory past a slot array was written
    last                \* the last call made and what it returned and logged

vars == <<m_eventDefinitions, m_events, crashed, corrupt, last>>

(***************************************************************************)
(* Bounds of the model.                                                    *)
(***************************************************************************)
\* Longest argument list (schema) a DataTable row declares.
MaxArgs == 2
\* Most subscribers user code binds, over all delegates of the registry.
MaxSubs == 2

\* Row names a DataTable may hold: the two names Setup() looks up itself.
Names == {"OnWeaponFired", "OnPlayerLanded"}
\* A name no DataTable of the model holds (a lookup that must miss).
UnknownName == "OnUnknown"
\* The name of the slot at each position of a row (TMap keys are unique).
SlotNames == <<"GameEventManager", "Source", "Target", "Extra">>
\* A slot name no row declares.
UnknownSlot == "NoSuchVariable"
\* The kinds the rows of the model draw their arguments from.
KindsUsed == {"Float", "UObjectPtr"}
\* Subscribers user code binds to delegates.
Subs == {"s1", "s2"}
\* The lambda Setup() binds to OnWeaponFired's delegate.
SetupLambda == "SetupLambda"
\* A subscriber that, the first time it runs in a call, broadcasts the event
\* it is handed (its UGameEvent& parameter) with the declared arguments.
Rebroadcaster == "Rebroadcaster"

(***************************************************************************)
(* EEventArgTypes and EventArgType (the TVariant of allowed base types).   *)
(***************************************************************************)
EEventArgTypes ==
    {"Int", "Float", "Bool", "FName", "FString", "FVector", "FVector2D",
     "FRotator", "UObjectPtr", "AActorPtr", "UEnum", "CustomStruct"}

\* The alternatives of the TVariant, in declaration order.
EventArgType ==
    <<"int", "float", "double", "FString", "FName", "bool", "FVector",
      "FVector2D", "FRotator", "UObject*", "AActor*", "uint8",
      "FEventArgStruct*">>

\* A value held by the variant: the active alternative and the value.
Val(t, v) == [type |-> t, val |-> v]

\* TVariant::GetIndex(): the 0-based position of the active alternative.
GetIndex(v) == (CHOOSE i \in 1..Len(EventArgType) : EventArgType[i] = v.type) - 1

\* T(): the value-initialised T that GetValue<T> returns on failure.
\* FVector, FVector2D and FRotator have no-init default constructors.
DefaultOf(T) ==
    CASE T \in {"int", "float", "double", "uint8"} -> Val(T, "0")
      [] T = "bool" -> Val(T, "false")
      [] T \in {"FString", "FName"} -> Val(T, "")
      [] T \in {"UObject*", "AActor*", "FEventArgStruct*"} -> Val(T, "nullptr")
      [] OTHER -> Val(T, "indeterminate")

\* The chain of Setup() with UEnum set as an int instead of a uint8.
ArgTypeOf_EnumAsInt(kind) ==
    IF kind = "Int" THEN Val("int", "0")
    ELSE IF kind = "Float" THEN Val("float", "0")
    ELSE IF kind = "Bool" THEN Val("bool", "false")
    ELSE IF kind = "FName" THEN Val("FName", "")
    ELSE IF kind = "FString" THEN Val("FString", "")
    ELSE IF kind = "FVector" THEN Val("FVector", "zero")
    ELSE IF kind = "FVector2D" THEN Val("FVector2D", "zero")
    ELSE IF kind = "FRotator" THEN Val("FRotator", "zero")
    ELSE IF kind = "UObjectPtr" THEN Val("UObject*", "nullptr")
    ELSE IF kind = "AActorPtr" THEN Val("AActor*", "nullptr")
    ELSE IF kind = "UEnum" THEN Val("int", "0")
    ELSE IF kind = "CustomStruct" THEN Val("FEventArgStruct*", "nullptr")
    ELSE Val("int", "0")

\* The if / else-if chain of Setup(): the variant a declared kind starts as.
\* A default-constructed EventArgType holds its first alternative, int.
ArgTypeOf(kind) ==
    IF kind = "Int" THEN Val("int", "0")
    ELSE IF kind = "Float" THEN Val("float", "0")
    ELSE IF kind = "Bool" THEN Val("bool", "false")
    ELSE IF kind = "FName" THEN Val("FName", "")
    ELSE IF kind = "FString" THEN Val("FString", "")
    ELSE IF kind = "FVector" THEN Val("FVector", "zero")
    ELSE IF kind = "FVector2D" THEN Val("FVector2D", "zero")
    ELSE IF kind = "FRotator" THEN Val("FRotator", "zero")
    ELSE IF kind = "UObjectPtr" THEN Val("UObject*", "nullptr")
    ELSE IF kind = "AActorPtr" THEN Val("AActor*", "nullptr")
    ELSE IF kind = "UEnum" THEN Val("uint8", "0")
    ELSE IF kind = "CustomStruct" THEN Val("FEventArgStruct*", "nullptr")
    ELSE Val("int", "0")

\* The arguments the calls of the model pass: Setup()'s own two
\* (251.0f and static_cast<UObject*>(this)).
ArgValues == {Val("float", "251"), Val("UObject*", "this")}

\* The types GetValue<T> is asked for.
ReadTypes == {"float", "UObject*"}

(***************************************************************************)
(* CEventArg, FEventDefinition, UGameEvent.                                *)
(***************************************************************************)
CEventArg(name, type) == [m_name |-> name, m_type |-> type]

\* Argument lists of DataTable rows: up to MaxArgs (name, kind) pairs.
Schemas ==
    UNION {[1..n -> KindsUsed] : n \in 0..MaxArgs}

\* FEventDefinition: m_isDynamic and m_args (key, value) in TMap order.
FEventDefinition(dyn, kinds) ==
    [m_isDynamic |-> dyn,
     m_args |-> [i \in 1..Len(kinds) |-> [Key |-> SlotNames[i], Value |-> kinds[i]]]]

Rows == {FEventDefinition(d, k) : d \in BOOLEAN, k \in Schemas}

\* The rows a name may have: OnWeaponFired any row, OnPlayerLanded the row
\* Setup()'s own Broadcast(251.0f) is written for.
RowsFor(name) ==
    IF name = "OnPlayerLanded"
    THEN {[m_isDynamic |-> FALSE, m_args |-> <<[Key |-> "Height", Value |-> "Float"]>>]}
    ELSE Rows

\* The DataTables of the model: a row for some of the names.
Tables ==
    UNION {{t \in [D -> Rows \cup RowsFor("OnPlayerLanded")] : \A n \in D : t[n] \in RowsFor(n)}
           : D \in SUBSET Names}

\* A freshly constructed UGameEvent (or UGameEventDynamic).
UGameEvent(name, dyn) ==
    [m_name |-> name, isDynamic |-> dyn, m_eventArgs |-> <<>>,
     m_delegate |-> <<>>, m_dynamicDelegate |-> <<>>, m_argsCounter |-> 0]

(***************************************************************************)
(* UGameEvent::GetValue<T>.                                                *)
(***************************************************************************)
\* TArray::FindByPredicate: the index of the first slot named id, or 0.
FindByName(m_eventArgs, id) ==
    IF \E i \in 1..Len(m_eventArgs) : m_eventArgs[i].m_name = id
    THEN CHOOSE i \in 1..Len(m_eventArgs) :
            /\ m_eventArgs[i].m_name = id
            /\ \A j \in 1..(i - 1) : m_eventArgs[j].m_name # id
    ELSE 0

\* A line of the error log.
LogLine(err, event, arg, counter, num) ==
    [err |-> err, event |-> event, arg |-> arg, counter |-> counter, num |-> num]

\* GetValue<T> without the comparison of the type indices: the slot's
\* value is handed back whatever its type.
GetValue_Unchecked(ev, T, id) ==
    LET found == FindByName(ev.m_eventArgs, id) IN
    IF found = 0
    THEN [ret |-> DefaultOf(T), err |-> "VarNotFound"]
    ELSE [ret |-> ev.m_eventArgs[found].m_type, err |-> ""]

\* GetValue<T>(id): the value returned and the error logged ("" for none).
GetValue(ev, T, id) ==
    LET found == FindByName(ev.m_eventArgs, id) IN
    IF found = 0
    THEN [ret |-> DefaultOf(T), err |-> "VarNotFound"]
    ELSE IF GetIndex(ev.m_eventArgs[found].m_type) = GetIndex(Val(T, ""))
    THEN [ret |-> ev.m_eventArgs[found].m_type, err |-> ""]
    ELSE [ret |-> DefaultOf(T), err |-> "WrongType"]

(***************************************************************************)
(* The delegates and their subscribers.  A call in progress is a record:   *)
(* the event, the subscribers invoked so far with what each read, the      *)
(* errors logged, and whether the process crashed or corrupted memory.     *)
(***************************************************************************)
Call(ev) ==
    [ev |-> ev, invoked |-> <<>>, log |-> <<>>, crashed |-> FALSE, corrupt |-> FALSE,
     trace |-> <<>>, nested |-> FALSE, ub |-> "assert"]

\* The call reads m_eventArgs[c]: the index is noted in its trace.
Lookup(st, c) == [st EXCEPT !.trace = Append(@, [at |-> "index", val |-> c])]

\* The call assigns c to m_argsCounter: the value is noted in its trace.
SetCounter(st, c) ==
    [st EXCEPT !.ev.m_argsCounter = c,
               !.trace = Append(@, [at |-> "counter", val |-> c])]

\* The arguments the rebroadcasting subscriber passes: a value of the type
\* of each slot of the event.
NestedArgs(ev) ==
    [i \in 1..Len(ev.m_eventArgs) |->
        CHOOSE v \in ArgValues : v.type = ev.m_eventArgs[i].m_type.type]

\* The reads a subscriber makes: the lambda of Setup() reads one variable;
\* a user subscriber reads every argument the row declares, by its type.
Reads(s, name) ==
    IF s = SetupLambda
    THEN <<[Key |-> "GameEventManager", T |-> "UObject*"]>>
    ELSE LET m_args == m_eventDefinitions[name].m_args IN
         [i \in 1..Len(m_args) |->
            [Key |-> m_args[i].Key, T |-> ArgTypeOf(m_args[i].Value).type]]

\* The errors GetValue logs over the reads of a subscriber, from read i on.
RECURSIVE ReadErrors(_, _, _)
ReadErrors(ev, reads, i) ==
    IF i > Len(reads) THEN <<>>
    ELSE LET r == GetValue(ev, reads[i].T, reads[i].Key) IN
         (IF r.err = "" THEN <<>> ELSE <<LogLine(r.err, ev.m_name, reads[i].Key, 0, 0)>>)
         \o ReadErrors(ev, reads, i + 1)

\* The body of a subscriber: it reads the event's variables.
Run(st, s, reads) ==
    [st EXCEPT
       !.invoked = Append(@, [sub |-> s, counter |-> st.ev.m_argsCounter,
                              seen |-> [i \in 1..Len(reads) |->
                                          GetValue(st.ev, reads[i].T, reads[i].Key).ret]]),
       !.log = @ \o ReadErrors(st.ev, reads, 1)]

RECURSIVE BroadcastIn(_, _)
\* One subscriber runs with the event as its parameter; the rebroadcasting
\* one then calls ev.Broadcast(args...) from inside its callback, once.
Invoke(st, s) ==
    IF s = Rebroadcaster /\ ~st.nested
    THEN BroadcastIn([Run(st, s, Reads(s, st.ev.m_name)) EXCEPT
                         !.nested = TRUE,
                         !.trace = Append(@, [at |-> "nested",
                                              val |-> st.ev.m_argsCounter])],
                     NestedArgs(st.ev))
    ELSE Run(st, s, Reads(s, st.ev.m_name))

RECURSIVE InvokeAll(_, _)
\* A delegate that keeps one binding per subscriber (AddUnique).
InvokeAll_Unique(st, list) ==
    IF list = <<>> THEN st
    ELSE IF \E k \in 1..Len(st.invoked) : st.invoked[k].sub = Head(list)
    THEN InvokeAll(st, Tail(list))
    ELSE InvokeAll(Invoke(st, Head(list)), Tail(list))

\* Delegate.Broadcast: each binding of the invocation list runs, in turn.
InvokeAll(st, list) ==
    IF list = <<>> \/ st.crashed THEN st
    ELSE InvokeAll(Invoke(st, Head(list)), Tail(list))

Reverse(q) == [i \in 1..Len(q) |-> q[Len(q) + 1 - i]]

\* TMulticastDelegate::Broadcast walks its invocation list from the last
\* binding to the first; a dynamic multicast delegate walks it forward.
UGameEvent_BroadcastDelegate(st) == InvokeAll(st, Reverse(st.ev.m_delegate))

\* UGameEventDynamic::BroadcastDelegate that broadcasts nothing.
UGameEventDynamic_BroadcastDelegate_Silent(st) == st

UGameEventDynamic_BroadcastDelegate(st) == InvokeAll(st, st.ev.m_dynamicDelegate)

\* The virtual call.
BroadcastDelegate(st) ==
    IF st.ev.isDynamic
    THEN UGameEventDynamic_BroadcastDelegate(st)
    ELSE UGameEvent_BroadcastDelegate(st)

(***************************************************************************)
(* UGameEvent::CheckArgsCounter, SetValues, Broadcast.                     *)
(***************************************************************************)
\* CheckArgsCounter with the comparison off by one (> for >=).
CheckArgsCounter_Strict(st) ==
    LET s1 == SetCounter(st, st.ev.m_argsCounter + 1) IN
    IF s1.ev.m_argsCounter > Len(s1.ev.m_eventArgs)
    THEN BroadcastDelegate(s1)
    ELSE s1

\* CheckArgsCounter that resets the counter before it fires the delegate.
CheckArgsCounter_ResetFirst(st) ==
    LET s1 == SetCounter(st, st.ev.m_argsCounter + 1) IN
    IF s1.ev.m_argsCounter >= Len(s1.ev.m_eventArgs)
    THEN BroadcastDelegate(SetCounter(s1, 0))
    ELSE s1

CheckArgsCounter(st) ==
    LET s1 == SetCounter(st, st.ev.m_argsCounter + 1) IN
    IF s1.ev.m_argsCounter >= Len(s1.ev.m_eventArgs)
    THEN BroadcastDelegate(s1)
    ELSE s1

\* What a build can do at m_eventArgs[m_argsCounter] past the end of the
\* array: TArray's range check fires, or the read goes through and the
\* garbage index differs from or equals the argument's.
UBOutcomes == {"assert", "mismatch", "match"}

OutOfBounds(st, arg, ub) ==
    CASE ub = "assert" -> [st EXCEPT !.crashed = TRUE]
      [] ub = "mismatch" ->
            SetCounter([st EXCEPT !.log = Append(@, LogLine("Mismatch", st.ev.m_name,
                                                            "garbage", 0, 0))], -1)
      [] OTHER -> CheckArgsCounter([st EXCEPT !.corrupt = TRUE])

\* SetValues(T arg) without the abort: a mismatch is logged and skipped.
SetValue_NoAbort(st, arg, ub) ==
    LET c == st.ev.m_argsCounter IN
    IF st.crashed \/ c = -1 THEN st
    ELSE IF c < 0 \/ c >= Len(st.ev.m_eventArgs)
    THEN OutOfBounds(Lookup(st, c), arg, ub)
    ELSE LET eventArg == st.ev.m_eventArgs[c + 1] IN
         IF GetIndex(eventArg.m_type) = GetIndex(arg)
         THEN CheckArgsCounter([Lookup(st, c) EXCEPT !.ev.m_eventArgs[c + 1].m_type = arg])
         ELSE [Lookup(st, c) EXCEPT
                 !.log = Append(@, LogLine("Mismatch", st.ev.m_name, eventArg.m_name, 0, 0))]

\* SetValues(T arg) that skips a mismatching slot: the error is logged and
\* the next argument goes to the next slot.
SetValue_SkipSlot(st, arg, ub) ==
    LET c == st.ev.m_argsCounter IN
    IF st.crashed \/ c = -1 THEN st
    ELSE IF c < 0 \/ c >= Len(st.ev.m_eventArgs)
    THEN OutOfBounds(Lookup(st, c), arg, ub)
    ELSE LET eventArg == st.ev.m_eventArgs[c + 1] IN
         IF GetIndex(eventArg.m_type) = GetIndex(arg)
         THEN CheckArgsCounter([Lookup(st, c) EXCEPT !.ev.m_eventArgs[c + 1].m_type = arg])
         ELSE SetCounter([st EXCEPT
                 !.trace = Append(@, [at |-> "index", val |-> c]),
                 !.log = Append(@, LogLine("Mismatch", st.ev.m_name, eventArg.m_name, 0, 0))],
                 c + 1)

\* SetValues(T arg) that stores the argument before it compares the types.
SetValue_StoreAnyway(st, arg, ub) ==
    LET c == st.ev.m_argsCounter IN
    IF st.crashed \/ c = -1 THEN st
    ELSE IF c < 0 \/ c >= Len(st.ev.m_eventArgs)
    THEN OutOfBounds(Lookup(st, c), arg, ub)
    ELSE LET eventArg == st.ev.m_eventArgs[c + 1] IN
         IF GetIndex(eventArg.m_type) = GetIndex(arg)
         THEN CheckArgsCounter([Lookup(st, c) EXCEPT !.ev.m_eventArgs[c + 1].m_type = arg])
         ELSE SetCounter([st EXCEPT
                 !.ev.m_eventArgs[c + 1].m_type = arg,
                 !.trace = Append(@, [at |-> "index", val |-> c]),
                 !.log = Append(@, LogLine("Mismatch", st.ev.m_name, eventArg.m_name, 0, 0))],
                 -1)

\* SetValues(T arg): set one argument of the pack.
SetValue(st, arg, ub) ==
    LET c == st.ev.m_argsCounter IN
    IF st.crashed \/ c = -1 THEN st
    ELSE IF c < 0 \/ c >= Len(st.ev.m_eventArgs)
    THEN OutOfBounds(Lookup(st, c), arg, ub)
    ELSE LET eventArg == st.ev.m_eventArgs[c + 1] IN
         IF GetIndex(eventArg.m_type) = GetIndex(arg)
         THEN CheckArgsCounter([Lookup(st, c) EXCEPT !.ev.m_eventArgs[c + 1].m_type = arg])
         ELSE SetCounter([st EXCEPT
                 !.trace = Append(@, [at |-> "index", val |-> c]),
                 !.log = Append(@, LogLine("Mismatch", st.ev.m_name, eventArg.m_name, 0, 0))],
                 -1)

\* SetValues(T t, Args ... args): the pack expansion.
RECURSIVE SetValues(_, _, _)
SetValues(st, args, ub) ==
    IF Len(args) = 1 THEN SetValue(st, args[1], ub)
    ELSE IF st.ev.m_argsCounter # -1 /\ ~st.crashed
    THEN SetValues(SetValue(st, Head(args), ub), Tail(args), ub)
    ELSE st

\* The end of Broadcast with the error logged only for an aborted fill.
BroadcastEnd_OnlyAborted(s1) ==
    LET c == s1.ev.m_argsCounter
        n == Len(s1.ev.m_eventArgs)
    IN IF s1.crashed THEN s1
       ELSE [s1 EXCEPT
               !.log = IF c = -1
                       THEN Append(@, LogLine("BroadcastFailed", s1.ev.m_name, "", c, n))
                       ELSE @,
               !.trace = Append(@, [at |-> "counter", val |-> 0]),
               !.ev.m_argsCounter = 0]

\* The end of Broadcast without the reset of the counter.
BroadcastEnd_NoReset(s1) ==
    LET c == s1.ev.m_argsCounter
        n == Len(s1.ev.m_eventArgs)
    IN IF s1.crashed THEN s1
       ELSE [s1 EXCEPT
               !.log = IF c = -1 \/ c < n
                       THEN Append(@, LogLine("BroadcastFailed", s1.ev.m_name, "", c, n))
                       ELSE @]

\* The end of Broadcast(T t, Args ... args), after SetValues(t, args...):
\* log a failed broadcast, reset the counter.
BroadcastEnd(s1) ==
    LET c == s1.ev.m_argsCounter
        n == Len(s1.ev.m_eventArgs)
    IN IF s1.crashed THEN s1
       ELSE [s1 EXCEPT
               !.log = IF c = -1 \/ c < n
                       THEN Append(@, LogLine("BroadcastFailed", s1.ev.m_name, "", c, n))
                       ELSE @,
               !.trace = Append(@, [at |-> "counter", val |-> 0]),
               !.ev.m_argsCounter = 0]

\* Broadcast() and Broadcast(T t, Args ... args), within the call st.
BroadcastIn(st, args) ==
    IF args = <<>> THEN BroadcastDelegate(st)
    ELSE BroadcastEnd(SetValues(st, args, st.ub))

\* A call of Broadcast from outside any callback.
Broadcast(ev, args, ub) == BroadcastIn([Call(ev) EXCEPT !.ub = ub], args)

(***************************************************************************)
(* UGameEventManager: Setup, Clear, GetDynamic, Get.                       *)
(***************************************************************************)
\* TMap::Add: the value stored under an existing key is replaced.
MapAdd(map, k, v) ==
    [x \in DOMAIN map \cup {k} |-> IF x = k THEN v ELSE map[x]]

\* UDataTable::GetRowNames: the keys of the row map, each once.
GetRowNames(table) ==
    (IF "OnPlayerLanded" \in DOMAIN table THEN <<"OnPlayerLanded">> ELSE <<>>)
    \o (IF "OnWeaponFired" \in DOMAIN table THEN <<"OnWeaponFired">> ELSE <<>>)

\* The body of Setup()'s loop over the arguments of a row.
EventArgsOf(row) ==
    [i \in 1..Len(row.m_args) |->
        CEventArg(row.m_args[i].Key, ArgTypeOf(row.m_args[i].Value))]

\* Setup()'s loop over the rows: an event per row found, added to the map.
RECURSIVE SetupRows(_, _, _)
SetupRows(events, table, rowNames) ==
    IF rowNames = <<>> THEN events
    ELSE LET name == Head(rowNames) IN
         IF name \in DOMAIN table
         THEN LET row == table[name]
                  ev == [UGameEvent(name, row.m_isDynamic) EXCEPT
                            !.m_eventArgs = EventArgsOf(row)]
              IN SetupRows(MapAdd(events, name, ev), table, Tail(rowNames))
         ELSE SetupRows(events, table, Tail(rowNames))

\* Get(id): check(ev != nullptr).
GetFound(events, id) == id \in DOMAIN events

\* GetDynamic without the Contains() test: success is always set.
GetDynamicResult_NoContains(events, id) ==
    [ok |-> TRUE,
     val |-> Val("UGameEventDynamic*",
                 IF id \in DOMAIN events THEN events[id].m_name ELSE "nullptr")]

\* GetDynamic(id, success): the flag and the pointer handed back.
GetDynamicResult(events, id) ==
    IF ~(id \in DOMAIN events)
    THEN [ok |-> FALSE, val |-> Val("UGameEventDynamic*", "nullptr")]
    ELSE [ok |-> TRUE, val |-> Val("UGameEventDynamic*", events[id].m_name)]

\* Clear() that drops nothing.
ClearResult_Keep(events) == events

\* Clear(): m_events.Empty().
ClearResult(events) == <<>>

\* What Setup() leaves: the map, what its broadcasts invoked and logged,
\* and whether it crashed or corrupted memory.
SetupResult(events, invoked, log, cr, co, trace) ==
    [events |-> events, invoked |-> invoked, log |-> log, crashed |-> cr, corrupt |-> co,
     trace |-> trace]

\* Get("OnWeaponFired").Broadcast(static_cast<UObject*>(this)), given what
\* the broadcast before it did.
SetupFire(events, b1, b2) ==
    SetupResult([events EXCEPT !["OnWeaponFired"] = b2.ev],
                b1.invoked \o b2.invoked, b1.log \o b2.log, b2.crashed,
                b1.corrupt \/ b2.corrupt, b1.trace \o b2.trace)

\* Get("OnPlayerLanded").Broadcast(251.0f), then the broadcast after it.
SetupLand(events, b1, ub2) ==
    IF b1.crashed
    THEN SetupResult([events EXCEPT !["OnPlayerLanded"] = b1.ev],
                     b1.invoked, b1.log, TRUE, b1.corrupt, b1.trace)
    ELSE SetupFire([events EXCEPT !["OnPlayerLanded"] = b1.ev], b1,
                   Broadcast(events["OnWeaponFired"], <<Val("UObject*", "this")>>, ub2))

\* The calls at the end of Setup(): bind a lambda to OnWeaponFired, then
\* broadcast OnPlayerLanded(251.0f) and OnWeaponFired(this).
SetupTail(events, ub1, ub2) ==
    IF ~GetFound(events, "OnWeaponFired") THEN SetupResult(events, <<>>, <<>>, TRUE, FALSE, <<>>)
    ELSE IF ~GetFound(events, "OnPlayerLanded")
    THEN SetupResult([events EXCEPT !["OnWeaponFired"].m_delegate = Append(@, SetupLambda)],
                     <<>>, <<>>, TRUE, FALSE, <<>>)
    ELSE SetupLand([events EXCEPT !["OnWeaponFired"].m_delegate = Append(@, SetupLambda)],
                   Broadcast(events["OnPlayerLanded"], <<Val("float", "251")>>, ub1), ub2)

\* Setup(): the loop over the rows, then the calls at its end.
Setup(events, table, ub1, ub2) ==
    SetupTail(SetupRows(events, table, GetRowNames(table)), ub1, ub2)

(***************************************************************************)
(* The state machine.                                                      *)
(***************************************************************************)
NoVal == Val("void", "")

\* The record of a call: the operation, the event and arguments it was made
\* with, the subscribers it invoked, the errors it logged, what it returned,
\* the names registered before it, and the slot indices it looked up and
\* counter values it assigned, in order.
Record(op, name, args, T, id, invoked, log, ret, pre) ==
    [op |-> op, name |-> name, args |-> args, T |-> T, id |-> id,
     invoked |-> invoked, log |-> log, ret |-> ret, pre |-> pre, trace |-> <<>>]

NoRet == [ok |-> TRUE, val |-> NoVal]

\* A Broadcast that logged a mismatch or a counter / length failure.
Failed(l) ==
    /\ l.op = "Broadcast"
    /\ \E i \in 1..Len(l.log) : l.log[i].err \in {"Mismatch", "BroadcastFailed"}

\* Argument packs of the calls on an event: up to one more argument than
\* the event has slots.  The argument past the slots is a float: no slot is
\* there to compare its type with.
ArgLists(ev) ==
    UNION {[1..n -> ArgValues] : n \in 0..Len(ev.m_eventArgs)}
    \cup {Append(a, Val("float", "251")) : a \in [1..Len(ev.m_eventArgs) -> ArgValues]}

\* The outcomes of a call: those of the build when it indexes past the slot
\* array, one otherwise.
UBChoices(ev, args) ==
    IF Broadcast(ev, args, "assert").crashed THEN UBOutcomes ELSE {"assert"}

\* The names of the slots of an event.
SlotsOf(ev) == {ev.m_eventArgs[i].m_name : i \in 1..Len(ev.m_eventArgs)}

\* No call is in progress and the last one has returned to its caller.
Idle == Record("Idle", "", <<>>, "", "", <<>>, <<>>, NoRet, {})

\* Subscribers user code has bound to the delegates of one event.
UserBound(ev) ==
    Cardinality({i \in 1..Len(ev.m_delegate) : ev.m_delegate[i] # SetupLambda})
    + Len(ev.m_dynamicDelegate)

\* Subscribers user code has bound, over the whole registry.
RECURSIVE BoundIn(_, _)
BoundIn(events, S) ==
    IF S = {} THEN 0
    ELSE LET n == CHOOSE x \in S : TRUE IN
         UserBound(events[n]) + BoundIn(events, S \ {n})

Bound == BoundIn(m_events, DOMAIN m_events)

\* The process is alive and its memory intact: past a failed check() or a
\* write past an array nothing more is defined.
Running == ~crashed /\ ~corrupt

Init ==
    /\ m_eventDefinitions \in Tables
    /\ m_events = <<>>
    /\ crashed = FALSE
    /\ corrupt = FALSE
    /\ last = Idle

DoSetup ==
    /\ Running /\ last = Idle
    /\ \E ub1 \in UBOutcomes, ub2 \in UBOutcomes :
        LET r == Setup(m_events, m_eventDefinitions, ub1, ub2) IN /\ m_events' = r.events
           /\ crashed' = r.crashed
           /\ corrupt' = (corrupt \/ r.corrupt)
           /\ last' = [Record("Setup", "", <<>>, "", "", r.invoked, r.log, NoRet,
                              DOMAIN m_events) EXCEPT !.trace = r.trace]
    /\ UNCHANGED m_eventDefinitions

DoClear ==
    /\ Running /\ last = Idle
    /\ m_events' = ClearResult(m_events)
    /\ last' = Record("Clear", "", <<>>, "", "", <<>>, <<>>, NoRet, DOMAIN m_events)
    /\ UNCHANGED <<m_eventDefinitions, crashed, corrupt>>

DoGet ==
    /\ Running /\ last = Idle
    /\ \E id \in Names \cup {UnknownName} :
        /\ crashed' = ~GetFound(m_events, id)
        /\ last' = Record("Get", id, <<>>, "", "", <<>>, <<>>,
                          [ok |-> GetFound(m_events, id), val |-> Val("UGameEvent&", id)],
                          DOMAIN m_events)
    /\ UNCHANGED <<m_eventDefinitions, m_events, corrupt>>

DoGetDynamic ==
    /\ Running /\ last = Idle
    /\ \E id \in Names \cup {UnknownName} :
        last' = Record("GetDynamic", id, <<>>, "", "", <<>>, <<>>,
                       GetDynamicResult(m_events, id), DOMAIN m_events)
    /\ UNCHANGED <<m_eventDefinitions, m_events, crashed, corrupt>>

\* Get(name).GetDelegate().Add(s)
DoAddSubscriber ==
    /\ Running /\ last = Idle
    /\ Bound < MaxSubs
    /\ \E name \in DOMAIN m_events, s \in Subs :
        /\ m_events' = [m_events EXCEPT ![name].m_delegate = Append(@, s)]
        /\ last' = Record("Add", name, <<>>, "", s, <<>>, <<>>, NoRet, DOMAIN m_events)
    /\ UNCHANGED <<m_eventDefinitions, crashed, corrupt>>

\* GetDynamic(name, ok)->GetDynDelegate().Add(s), on a dynamic event
DoAddDynamicSubscriber ==
    /\ Running /\ last = Idle
    /\ Bound < MaxSubs
    /\ \E name \in DOMAIN m_events, s \in Subs :
        /\ m_events[name].isDynamic
        /\ m_events' = [m_events EXCEPT ![name].m_dynamicDelegate = Append(@, s)]
        /\ last' = Record("AddDynamic", name, <<>>, "", s, <<>>, <<>>, NoRet,
                          DOMAIN m_events)
    /\ UNCHANGED <<m_eventDefinitions, crashed, corrupt>>

\* Get(name).Broadcast(args...)
DoBroadcast ==
    /\ Running /\ last = Idle
    /\ \E name \in DOMAIN m_events :
      \E args \in ArgLists(m_events[name]) :
      \E ub \in UBChoices(m_events[name], args) :
        LET r == Broadcast(m_events[name], args, ub) IN
        /\ m_events' = [m_events EXCEPT ![name] = r.ev]
        /\ crashed' = r.crashed
        /\ corrupt' = (corrupt \/ r.corrupt)
        /\ last' = [Record("Broadcast", name, args, "", "", r.invoked, r.log, NoRet,
                           DOMAIN m_events) EXCEPT !.trace = r.trace]
    /\ UNCHANGED m_eventDefinitions

\* Get(name).GetValue<T>(id)
DoGetValue ==
    /\ Running /\ last = Idle
    /\ \E name \in DOMAIN m_events, T \in ReadTypes :
      \E id \in SlotsOf(m_events[name]) \cup {UnknownSlot} :
        LET r == GetValue(m_events[name], T, id) IN
        last' = Record("GetValue", name, <<>>, T, id, <<>>,
                       IF r.err = "" THEN <<>> ELSE <<LogLine(r.err, name, id, 0, 0)>>,
                       [ok |-> TRUE, val |-> r.ret], DOMAIN m_events)
    /\ UNCHANGED <<m_eventDefinitions, m_events, crashed, corrupt>>

\* The call returns and its caller drops what it was handed.
Return ==
    /\ Running /\ last # Idle
    /\ last' = Idle
    /\ UNCHANGED <<m_eventDefinitions, m_events, crashed, corrupt>>

Next ==
    \/ Return
    \/ DoSetup
    \/ DoClear
    \/ DoGet
    \/ DoGetDynamic
    \/ DoAddSubscriber
    \/ DoAddDynamicSubscriber
    \/ DoBroadcast
    \/ DoGetValue

Spec == Init /\ [][Next]_vars

(***************************************************************************)
(* The registry with a subscriber that broadcasts from inside its          *)
(* callback.                                                               *)
(***************************************************************************)
\* Bind the rebroadcasting subscriber to the delegate the event broadcasts,
\* once per event.
DoAddRebroadcaster ==
    /\ Running /\ last = Idle
    /\ \E name \in DOMAIN m_events :
        /\ \A i \in 1..Len(m_events[name].m_delegate) :
              m_events[name].m_delegate[i] # Rebroadcaster
        /\ \A i \in 1..Len(m_events[name].m_dynamicDelegate) :
              m_events[name].m_dynamicDelegate[i] # Rebroadcaster
        /\ m_events' =
              IF m_events[name].isDynamic
              THEN [m_events EXCEPT ![name].m_dynamicDelegate = Append(@, Rebroadcaster)]
              ELSE [m_events EXCEPT ![name].m_delegate = Append(@, Rebroadcaster)]
        /\ last' = Record("Add", name, <<>>, "", Rebroadcaster, <<>>, <<>>, NoRet,
                          DOMAIN m_events)
    /\ UNCHANGED <<m_eventDefinitions, crashed, corrupt>>

NextReentrant ==
    \/ Return
    \/ DoSetup
    \/ DoAddRebroadcaster
    \/ DoBroadcast

SpecReentrant == Init /\ [][NextReentrant]_vars

(***************************************************************************)
(* The registry over every declarable kind: OnWeaponFired declares one     *)
(* argument, of any kind of EEventArgTypes, and is broadcast one value of  *)
(* any type the variant holds.                                             *)
(***************************************************************************)
\* The DataTable whose OnWeaponFired row declares one argument of kind k.
TableOfKind(k) ==
    [n \in Names |->
        IF n = "OnWeaponFired"
        THEN [m_isDynamic |-> FALSE,
              m_args |-> <<[Key |-> "GameEventManager", Value |-> k]>>]
        ELSE [m_isDynamic |-> FALSE, m_args |-> <<[Key |-> "Height", Value |-> "Float"]>>]]

\* A value of the alternative t of the variant, other than T().
Sample(t) == Val(t, IF t = "UObject*" THEN "this" ELSE "251")

InitKinds ==
    /\ m_eventDefinitions \in {TableOfKind(k) : k \in EEventArgTypes}
    /\ m_events = <<>>
    /\ crashed = FALSE
    /\ corrupt = FALSE
    /\ last = Idle

\* Get("OnWeaponFired").Broadcast(v), v of any type of the variant
DoBroadcastValue ==
    /\ Running /\ last = Idle
    /\ "OnWeaponFired" \in DOMAIN m_events
    /\ \E i \in 1..Len(EventArgType) :
        LET r == Broadcast(m_events["OnWeaponFired"], <<Sample(EventArgType[i])>>, "assert") IN
        /\ m_events' = [m_events EXCEPT !["OnWeaponFired"] = r.ev]
        /\ crashed' = r.crashed
        /\ corrupt' = (corrupt \/ r.corrupt)
        /\ last' = [Record("Broadcast", "OnWeaponFired", <<Sample(EventArgType[i])>>, "", "",
                           r.invoked, r.log, NoRet, DOMAIN m_events)
                       EXCEPT !.trace = r.trace]
    /\ UNCHANGED m_eventDefinitions

NextKinds ==
    \/ Return
    \/ DoSetup
    \/ DoBroadcastValue

SpecKinds == InitKinds /\ [][NextKinds]_vars

(***************************************************************************)
(* Vocabulary of the properties.                                           *)
(***************************************************************************)
\* The row an event was built from, its length and the type of its slot i.
RowOf(name) == m_eventDefinitions[name]

SchemaLen(name) == Len(RowOf(name).m_args)

DeclaredType(name, i) == ArgTypeOf(RowOf(name).m_args[i].Value).type

\* The position of the slot a row declares under key, or 0.
SlotIndex(name, key) ==
    IF \E j \in 1..SchemaLen(name) : RowOf(name).m_args[j].Key = key
    THEN CHOOSE j \in 1..SchemaLen(name) : RowOf(name).m_args[j].Key = key
    ELSE 0

\* Argument i of the pack has the type declared for slot i.
Matches(name, args, i) == args[i].type = DeclaredType(name, i)

\* The pack has exactly one argument of the declared type per slot.
FullMatch(name, args) ==
    /\ Len(args) = SchemaLen(name)
    /\ \A i \in 1..Len(args) : Matches(name, args, i)

\* The pack's first mismatch is at slot i, a slot the schema has.
MismatchAt(name, args, i) ==
    /\ i \in 1..Len(args) /\ i <= SchemaLen(name)
    /\ ~Matches(name, args, i)
    /\ \A j \in 1..(i - 1) : Matches(name, args, j)

\* The subscribers of an event: those bound to the delegate its flavour
\* broadcasts (section 6 of the specification: the flag selects the list).
Subscribers(ev) == IF ev.isDynamic THEN ev.m_dynamicDelegate ELSE ev.m_delegate

Count(q, x) == Cardinality({i \in 1..Len(q) : q[i] = x})

\* Every binding of subs was invoked exactly once in inv.
EachOnce(inv, subs) ==
    /\ Len(inv) = Len(subs)
    /\ \A i \in 1..Len(subs) :
          Count([k \in 1..Len(inv) |-> inv[k].sub], subs[i]) = Count(subs, subs[i])

\* Every read a subscriber made of a declared slot, by its declared type,
\* returned the argument the pack args carries at that slot's position.
SawArgs(name, args, inv) ==
    \A k \in 1..Len(inv) :
        LET reads == Reads(inv[k].sub, name) IN
        /\ Len(inv[k].seen) = Len(reads)
        /\ \A i \in 1..Len(reads) :
              LET j == SlotIndex(name, reads[i].Key) IN
              (j # 0 /\ reads[i].T = DeclaredType(name, j)) => inv[k].seen[i] = args[j]

\* The log holds an error of the kind err.
Logged(log, err) == \E i \in 1..Len(log) : log[i].err = err

\* The pack of the declared types for an event: the one full match.
FullArgs(name) ==
    [i \in 1..SchemaLen(name) |->
        CHOOSE v \in ArgValues : v.type = DeclaredType(name, i)]

C2_MismatchInvokesNone ==
    \A i \in 1..MaxArgs :
        (/\ last.op = "Broadcast"
         /\ i <= SchemaLen(last.name)
         /\ MismatchAt(last.name, last.args, i))
        => /\ ~crashed /\ ~corrupt
           /\ last.invoked = <<>>
           /\ \E l \in 1..Len(last.log) :
                 /\ last.log[l].err = "Mismatch"
                 /\ last.log[l].event = last.name
                 /\ last.log[l].arg = RowOf(last.name).m_args[i].Key
           /\ m_events[last.name].m_argsCounter = 0

C2_Witness ==
    /\ last.op = "Broadcast"
    /\ SchemaLen(last.name) >= 2
    /\ MismatchAt(last.name, last.args, 2)
    /\ Len(last.args) > 2
    /\ Subscribers(m_events[last.name]) # <<>>

(***************************************************************************)
(* C3.  A Broadcast carrying k arguments, 1 <= k < n, all of the declared  *)
(* types, invokes no subscriber, logs the failed broadcast with counter k  *)
(* against n slots, and leaves the counter at 0 when it returns.           *)
(***************************************************************************)
C3_TooFewInvokesNone ==
    (/\ last.op = "Broadcast"
     /\ Len(last.args) >= 1
     /\ Len(last.args) < SchemaLen(last.name)
     /\ \A i \in 1..Len(last.args) : Matches(last.name, last.args, i))
    => /\ ~crashed /\ ~corrupt
       /\ last.invoked = <<>>
       /\ \E l \in 1..Len(last.log) :
             /\ last.log[l].err = "BroadcastFailed"
             /\ last.log[l].counter = Len(last.args)
             /\ last.log[l].num = SchemaLen(last.name)
       /\ m_events[last.name].m_argsCounter = 0

C3_Witness ==
    /\ last.op = "Broadcast"
    /\ Len(last.args) = 1
    /\ SchemaLen(last.name) = 2
    /\ Matches(last.name, last.args, 1)
    /\ Subscribers(m_events[last.name]) # <<>>

(***************************************************************************)
(* C4.  A Broadcast() without arguments on an event whose schema has a     *)
(* slot fails with an argument-count error and invokes no subscriber; it   *)
(* invokes subscribers only when the schema is empty.                      *)
(***************************************************************************)
C4_ZeroArgBroadcastFails ==
    (/\ last.op = "Broadcast"
     /\ last.args = <<>>
     /\ SchemaLen(last.name) >= 1)
    => /\ last.invoked = <<>>
       /\ Logged(last.log, "BroadcastFailed")

C6_GetValueChecked ==
    last.op = "GetValue" =>
        LET ev == m_events[last.name]
            j == SlotIndex(last.name, last.id)
        IN /\ last.ret.val.type = last.T
           /\ (j # 0 /\ ev.m_eventArgs[j].m_type.type = last.T)
                 => /\ last.ret.val = ev.m_eventArgs[j].m_type
                    /\ last.log = <<>>
           /\ j = 0
                 => /\ last.ret.val = DefaultOf(last.T)
                    /\ Len(last.log) = 1 /\ last.log[1].err = "VarNotFound"
           /\ (j # 0 /\ ev.m_eventArgs[j].m_type.type # last.T)
                 => /\ last.ret.val = DefaultOf(last.T)
                    /\ Len(last.log) = 1 /\ last.log[1].err = "WrongType"

C6_Witness ==
    /\ last.op = "GetValue"
    /\ Logged(last.log, "WrongType")
    /\ LET slot == m_events[last.name].m_eventArgs[SlotIndex(last.name, last.id)].m_type
       IN slot # DefaultOf(slot.type)

\* C6 as stated: the caller can always tell a failed GetValue<T> from a
\* successfully read value, that is, what a failed call returns is returned
\* by no successful GetValue<T> on a slot of the registry.
C6_FailureDistinguishable ==
    (last.op = "GetValue" /\ last.log # <<>>)
    => \A n \in DOMAIN m_events : \A id \in SlotsOf(m_events[n]) :
          GetValue(m_events[n], last.T, id).err = ""
             => GetValue(m_events[n], last.T, id).ret # last.ret.val

(***************************************************************************)
(* C7.  A build that meets a name the registry already holds fails with    *)
(* DuplicateName and does not replace the event created for the first      *)
(* definition.  A DataTable holds each row name once, so a name repeats    *)
(* when Setup() runs again.                                                *)
(***************************************************************************)
C7_DuplicateNameRejected ==
    [][(last'.op = "Setup" /\ last.op = "Idle")
         => \A n \in DOMAIN m_events \cap DOMAIN m_eventDefinitions :
               /\ Logged(last'.log, "DuplicateName")
               /\ n \in DOMAIN m_events' /\ m_events'[n] = m_events[n]]_vars

(***************************************************************************)
(* C8.  After Clear() the registry holds no events, and Get(name) fails    *)
(* its check() for every name registered before the call.                  *)
(***************************************************************************)
C8_ClearForgetsAll ==
    /\ last.op = "Clear"
          => /\ DOMAIN m_events = {}
             /\ \A n \in last.pre : ~GetFound(m_events, n)
    /\ (last.op = "Get" /\ ~(last.name \in last.pre)) => crashed

C8_Witness ==
    /\ last.op = "Clear"
    /\ last.pre = Names

(***************************************************************************)
(* C9.  GetDynamic(name) never asserts: success is false, with no event,   *)
(* exactly when name is not in the registry, and true with the event       *)
(* registered under name otherwise; the registry is left as it was.        *)
(***************************************************************************)
C9_GetDynamicTotal ==
    [][(last'.op = "GetDynamic" /\ last.op = "Idle")
         => /\ m_events' = m_events
            /\ ~crashed' /\ ~corrupt'
            /\ last'.ret.ok = (last'.name \in DOMAIN m_events)
            /\ last'.ret.ok => last'.ret.val.val = m_events[last'.name].m_name
            /\ last'.ret.ok => m_events[last'.ret.val.val].m_name = last'.name
            /\ ~last'.ret.ok => last'.ret.val.val = "nullptr"]_vars

C9_Witness ==
    /\ last.op = "GetDynamic"
    /\ last.ret.ok
    /\ last.name \in DOMAIN m_events
    /\ ~crashed

(***************************************************************************)
(* C10.  When Setup() returns, every row's name maps to an event whose     *)
(* slots are the row's arguments in declared order, each holding the       *)
(* default value of its kind, with the counter at 0.                       *)
(***************************************************************************)
C10_SetupLeavesDefaults ==
    (last.op = "Setup" /\ ~crashed /\ ~corrupt)
    => \A n \in DOMAIN m_eventDefinitions :
          /\ n \in DOMAIN m_events
          /\ m_events[n].m_eventArgs = EventArgsOf(RowOf(n))
          /\ m_events[n].m_argsCounter = 0

(***************************************************************************)
(* C11 (as amended).  A dynamic and a non-dynamic event built from the     *)
(* same row, with the same subscribers bound in the same order to the      *)
(* delegate each one broadcasts (GetDynDelegate() for the dynamic event,   *)
(* GetDelegate() for the other), answer every Broadcast alike: the same    *)
(* slot lookups and counter values, the same slots and counter at the end, *)
(* the same errors, and every subscriber invoked the same number of times. *)
(***************************************************************************)
\* The event of the other flavour with the same slots and the same bindings
\* on the delegate it broadcasts.
OtherFlavour(ev) ==
    [ev EXCEPT !.isDynamic = ~ev.isDynamic,
               !.m_delegate = IF ev.isDynamic THEN ev.m_dynamicDelegate ELSE <<>>,
               !.m_dynamicDelegate = IF ev.isDynamic THEN <<>> ELSE ev.m_delegate]

\* The subscribers of the invocations inv, in order.
SubsOf(inv) == [k \in 1..Len(inv) |-> inv[k].sub]

\* The call b went the way the step to the next state did, but for the
\* order of the invocations.
SameOutcome(b) ==
    /\ b.ev.m_argsCounter = m_events'[last'.name].m_argsCounter
    /\ b.ev.m_eventArgs = m_events'[last'.name].m_eventArgs
    /\ b.trace = last'.trace
    /\ b.log = last'.log
    /\ b.crashed = crashed' /\ b.corrupt = corrupt'
    /\ Len(b.invoked) = Len(last'.invoked)
    /\ \A s \in Subs \cup {SetupLambda} :
          Count(SubsOf(b.invoked), s) = Count(SubsOf(last'.invoked), s)

C11_FlavoursAgree ==
    [][(last'.op = "Broadcast" /\ last.op = "Idle")
         => \E ub \in UBOutcomes :
               SameOutcome(Broadcast(OtherFlavour(m_events[last'.name]), last'.args, ub))]_vars

C11_Witness ==
    /\ last.op = "Broadcast"
    /\ m_events[last.name].isDynamic
    /\ Len(last.invoked) >= 2
    /\ SchemaLen(last.name) >= 1
    /\ FullMatch(last.name, last.args)

\* C11 as stated, for subscribers bound through GetDelegate(), the accessor
\* both flavours have: the event of the other flavour, given the same
\* GetDelegate() bindings, invokes as many subscribers on the same call.
C11_SameRegistrationsSameInvocations ==
    [][(last'.op = "Broadcast" /\ last.op = "Idle" /\ last'.args # <<>>
        /\ m_events[last'.name].m_dynamicDelegate = <<>>)
         => LET ev == m_events[last'.name] IN
            \E ub \in UBOutcomes :
               LET b == Broadcast([ev EXCEPT !.isDynamic = ~ev.isDynamic], last'.args, ub)
               IN Len(b.invoked) = Len(last'.invoked)]_vars

(***************************************************************************)
(* C12 (as amended).  On every successful Broadcast a subscriber bound k   *)
(* times is invoked k times, and the bindings run in the order of the      *)
(* delegate: a dynamic event's in the order they were bound, a non-dynamic *)
(* event's from the last bound to the first.                               *)
(***************************************************************************)
\* The last call was a Broadcast that reached the subscribers: one
\* argument of the declared type per slot and no failure.
Successful ==
    /\ last.op = "Broadcast"
    /\ ~crashed /\ ~corrupt
    /\ FullMatch(last.name, last.args)
    /\ ~Failed(last)

RECURSIVE TraceOf(_, _)
TraceOf(trace, at) ==
    IF trace = <<>> THEN <<>>
    ELSE (IF Head(trace).at = at THEN <<Head(trace).val>> ELSE <<>>)
         \o TraceOf(Tail(trace), at)

(***************************************************************************)
(* C13.  Every value the counter of an event takes is -1 or lies in        *)
(* 0 .. number of slots, and the counter is 0 whenever no Broadcast on the *)
(* event is in progress.                                                   *)
(***************************************************************************)
C13_CounterInRange ==
    /\ ~crashed => \A n \in DOMAIN m_events : m_events[n].m_argsCounter = 0
    /\ last.op = "Broadcast"
          => \A k \in 1..Len(last.trace) :
                last.trace[k].at = "counter"
                   => \/ last.trace[k].val = -1
                      \/ last.trace[k].val \in 0..SchemaLen(last.name)

(***************************************************************************)
(* C14.  Every lookup m_eventArgs[m_argsCounter] a Broadcast makes, for    *)
(* an argument list of any length, uses an index in 0 .. number of         *)
(* slots - 1.                                                              *)
(***************************************************************************)
C14_LookupsInRange ==
    last.op = "Broadcast"
       => \A k \in 1..Len(last.trace) :
             last.trace[k].at = "index"
                => last.trace[k].val \in 0..(SchemaLen(last.name) - 1)

(***************************************************************************)
(* C15.  A Broadcast whose first mismatch is at slot i stops there: slots  *)
(* i .. n hold what they held before the call, the slots before i hold the *)
(* arguments, and slots 1 .. i are the only ones the call looked up.       *)
(***************************************************************************)
C15_MismatchStopsFilling ==
    [][(last'.op = "Broadcast" /\ last.op = "Idle")
         => \A i \in 1..SchemaLen(last'.name) :
               MismatchAt(last'.name, last'.args, i)
                  => LET before == m_events[last'.name].m_eventArgs
                         after == m_events'[last'.name].m_eventArgs
                     IN /\ Len(after) = Len(before)
                        /\ \A j \in i..Len(before) : after[j] = before[j]
                        /\ \A j \in 1..(i - 1) : after[j].m_type = last'.args[j]
                        /\ TraceOf(last'.trace, "index") = [j \in 1..i |-> j - 1]]_vars

C15_Witness ==
    /\ last.op = "Broadcast"
    /\ SchemaLen(last.name) = 2
    /\ MismatchAt(last.name, last.args, 1)
    /\ Len(last.args) >= 2
    /\ Matches(last.name, last.args, 2)
    /\ m_events[last.name].m_eventArgs[2].m_type # last.args[2]

(***************************************************************************)
(* C16.  The type a slot holds is the one Setup() gave it for the kind the *)
(* row declares, whatever Broadcast calls were made since: every event has *)
(* the slots of its row, by name and type, in every state.                 *)
(***************************************************************************)
C16_SlotKindsFixed ==
    ~corrupt =>
        \A n \in DOMAIN m_events :
            /\ Len(m_events[n].m_eventArgs) = SchemaLen(n)
            /\ \A i \in 1..SchemaLen(n) :
                  /\ m_events[n].m_eventArgs[i].m_name = RowOf(n).m_args[i].Key
                  /\ m_events[n].m_eventArgs[i].m_type.type = DeclaredType(n, i)

C16_Witness ==
    /\ last.op = "Broadcast"
    /\ Logged(last.log, "Mismatch")
    /\ ~crashed /\ ~corrupt
    /\ SchemaLen(last.name) = 2
    /\ \A i \in 1..2 :
          m_events[last.name].m_eventArgs[i].m_type.val \in {"251", "this"}

(***************************************************************************)
(* C17 (as amended).  A Broadcast carrying arguments invokes its           *)
(* subscribers with the counter at n, the number of slots.  A Broadcast    *)
(* with the declared arguments that a subscriber makes on the same event   *)
(* from inside its callback therefore starts from n, not 0: its first      *)
(* lookup is at index n, past the slots, and it aborts the process, or     *)
(* writes past the array, or fails with a mismatch and resets the counter, *)
(* so that the outer call, if it carried the declared arguments, reports  *)
(* a failure too.  Nested in a Broadcast() without arguments the same call *)
(* starts from 0 and fails in no way.                                      *)
(***************************************************************************)
\* The counter at the start of each call nested in the last call.
NestedAt == TraceOf(last.trace, "nested")

\* The lines of the log that are of the kind err.
CountLogged(log, err) == Cardinality({i \in 1..Len(log) : log[i].err = err})

C17_NestedBroadcastCorrupts ==
    /\ (/\ last.op = "Broadcast" /\ NestedAt # <<>>
        /\ last.args # <<>> /\ SchemaLen(last.name) >= 1)
       => /\ NestedAt = <<SchemaLen(last.name)>>
          /\ \E k \in 1..Len(last.trace) :
                /\ last.trace[k].at = "index"
                /\ last.trace[k].val = SchemaLen(last.name)
          /\ \/ ~FullMatch(last.name, last.args)
             \/ crashed
             \/ corrupt
             \/ /\ Logged(last.log, "Mismatch")
                /\ CountLogged(last.log, "BroadcastFailed") = 2
                /\ Len(last.invoked) = Len(Subscribers(m_events[last.name]))
    /\ (last.op = "Broadcast" /\ NestedAt # <<>> /\ last.args = <<>>)
       => /\ NestedAt = <<0>>
          /\ ~crashed /\ ~corrupt
          /\ ~Logged(last.log, "Mismatch")
          /\ ~Logged(last.log, "BroadcastFailed")
          /\ Len(last.invoked) = 2 * Len(Subscribers(m_events[last.name]))

C17_Witness ==
    /\ last.op = "Broadcast"
    /\ last.args # <<>>
    /\ NestedAt # <<>>
    /\ SchemaLen(last.name) = 2
    /\ FullMatch(last.name, last.args)
    /\ ~crashed /\ ~corrupt

\* C17 as stated: no call nested in a callback starts from a counter of 0.
C17_NestedNeverFromZero ==
    (last.op = "Broadcast" /\ NestedAt # <<>>)
    => \A k \in 1..Len(NestedAt) : NestedAt[k] # 0

(***************************************************************************)
(* C18.  GetDynamic(name) sets success and hands out an event as a         *)
(* UGameEventDynamic only for a name whose row has m_isDynamic set.        *)
(***************************************************************************)
C18_GetDynamicOnlyDynamic ==
    (last.op = "GetDynamic" /\ last.ret.ok)
    => /\ RowOf(last.name).m_isDynamic
       /\ m_events[last.name].isDynamic

(***************************************************************************)
(* C19.  Setup() returns without a failed check() for every DataTable,     *)
(* also one with no row named OnWeaponFired or OnPlayerLanded, and it      *)
(* binds no subscriber and broadcasts no event.                            *)
(***************************************************************************)
C19_SetupOnlyBuilds ==
    last.op = "Setup"
    => /\ ~crashed
       /\ last.invoked = <<>> /\ last.log = <<>> /\ last.trace = <<>>
       /\ \A n \in DOMAIN m_events :
             m_events[n].m_delegate = <<>> /\ m_events[n].m_dynamicDelegate = <<>>

(***************************************************************************)
(* C20 (as amended).  Setup() gives the twelve kinds of EEventArgTypes     *)
(* twelve different alternatives of the variant, all of them but double.   *)
(* A Broadcast of one value to an event declaring one argument succeeds    *)
(* exactly when the value's type is the one of the declared kind; a        *)
(* double is a mismatch whatever the kind.                                 *)
(***************************************************************************)
\* The alternatives of the variant, as a set.
ValueTypes == {EventArgType[i] : i \in 1..Len(EventArgType)}

====
